---------------------------- MODULE Spec2Model ----------------------------
(***************************************************************************)
(* The raw key-value request layer of the TiKV client: the caller-visible  *)
(* lazy request futures (src/src/raw.rs) and the resolve / build /         *)
(* dispatch / map / reduce engine behind them (src/src/raw/requests.rs),   *)
(* run against a region-partitioned store.  One behaviour follows one      *)
(* request value from construction to its final result.                    *)
(***************************************************************************)
EXTENDS Integers, Sequences, FiniteSets, TLC

VARIABLES
    splits,     \* topology: the keys at which a new region starts
    db,         \* the store: column family -> key -> Option<Value>
    input,      \* the caller's arguments to the Client methods, the latest first
    state,      \* RequestState: "Unbuilt", "Uninitiated", "Initiated", "Dropped"
    payload,    \* the Option inside RequestState::Uninitiated
    executes,   \* how many times RequestInner::execute has run
    self,       \* the RawRequest value owned by the running future
    pc,         \* where the future is suspended
    io,         \* the awaited I/O: "idle", "pending", "ok", "err"
    stream,     \* what store_stream has still to yield
    cur,        \* the (routing key, store) pair being resolved or dispatched
    parts,      \* the Results the reduce has consumed so far
    result,     \* the future's output, None until Ready
    sent,       \* the wire requests dispatched, in order
    replies,    \* the outcome of each dispatch: "ok" or "err"
    resp,       \* the wire response being awaited or mapped
    lookups     \* how many topology lookups were issued

vars == <<splits, db, input, state, payload, executes, self, pc, io, stream,
          cur, parts, result, sent, replies, resp, lookups>>

-----------------------------------------------------------------------------
(* Bounds and constants *)

MaxKey == 1
MaxBatch == 2
MaxRanges == 1
MAX_RAW_KV_SCAN_LIMIT == 10240

Keys == 0 .. MaxKey
Values == {"", "v1", "v2"}
CfNames == {"cf1"}
DefaultCf == "default"
Limits == {1, MAX_RAW_KV_SCAN_LIMIT, MAX_RAW_KV_SCAN_LIMIT + 1}

-----------------------------------------------------------------------------
(* Option, Result, errors *)

None == << >>
Some(x) == <<x>>
Unit == << >>

NoError == [kind |-> "none", limit |-> 0, max |-> 0]
Error(k) == [kind |-> k, limit |-> 0, max |-> 0]
max_scan_limit_exceeded(l, m) == [kind |-> "MaxScanLimitExceeded", limit |-> l, max |-> m]

Ok(v) == [ok |-> TRUE, val |-> v, err |-> NoError]
Err(e) == [ok |-> FALSE, val |-> Unit, err |-> e]

SeqsUpTo(S, n) == UNION {[1 .. m -> S] : m \in 0 .. n}

RECURSIVE Flatten(_)
Flatten(ss) == IF ss = << >> THEN << >> ELSE Head(ss) \o Flatten(Tail(ss))

Take(s, n) == SubSeq(s, 1, IF n < Len(s) THEN n ELSE Len(s))
Range(s) == {s[i] : i \in DOMAIN s}

-----------------------------------------------------------------------------
(* Key ranges *)

Included(k) == <<"Included", k>>
Excluded(k) == <<"Excluded", k>>
Unbounded == <<"Unbounded", 0>>

StartBounds == {Included(k) : k \in Keys} \cup {Unbounded}
EndBounds == {Included(k) : k \in Keys} \cup {Excluded(k) : k \in Keys} \cup {Unbounded}
BoundRanges == StartBounds \X EndBounds

\* The first key of the range, and the first key past it (None: no end).
RangeStart(r) == IF r[1][1] = "Unbounded" THEN 0 ELSE r[1][2]
RangeEnd(r) ==
    CASE r[2][1] = "Unbounded" -> None
      [] r[2][1] = "Included" -> Some(r[2][2] + 1)
      [] OTHER -> Some(r[2][2])

\* KeyRange::into_keys: (start, Option<end>), or InvalidKeyRange for a range
\* that is empty or inverted.
into_keys(r) ==
    IF RangeEnd(r) /= None /\ RangeStart(r) >= RangeEnd(r)[1]
    THEN Err(Error("InvalidKeyRange"))
    ELSE Ok(<<RangeStart(r), RangeEnd(r)>>)

InKeyRange(k, ks) == ks[1] <= k /\ (ks[2] = None \/ k < ks[2][1])

-----------------------------------------------------------------------------
(* Topology: regions are contiguous, cover the keyspace, the last is open *)

KeyEnd == MaxKey + 1

RegionStarts(sp) == {0} \cup sp
RegionOf(sp, k) ==
    LET s == CHOOSE x \in RegionStarts(sp) :
                 x <= k /\ \A y \in RegionStarts(sp) : y <= k => y <= x
        later == {y \in RegionStarts(sp) : y > s}
        e == IF later = {} THEN KeyEnd
             ELSE CHOOSE y \in later : \A z \in later : y <= z
    IN [id |-> s + 1, start |-> s, end |-> e]

\* Region::range: the region's (start_key, end_key).
region_range(region) == <<region.start, region.end>>
region_contains(region, k) == region.start <= k /\ (k < region.end \/ region.end = KeyEnd)

-----------------------------------------------------------------------------
(* Topology resolver (PdClient) and node handle (Store) *)

Store(region) == [region |-> region]

store_for_key(sp, k) == Store(RegionOf(sp, k))

store_for_id(sp, id) ==
    Store(CHOOSE region \in {RegionOf(sp, k) : k \in Keys} : region.id = id)

\* One element of group_keys_by_region: the region of the first item left, the
\* items that fall in it (payloads kept, order kept) and the items left over.
group_keys_by_region(sp, items) ==
    LET region == RegionOf(sp, items[1][1])
        In(it) == region_contains(region, it[1])
        Out(it) == ~region_contains(region, it[1])
    IN [id |-> region.id, group |-> SelectSeq(items, In), rest |-> SelectSeq(items, Out)]

\* One element of stores_for_range: the store of the region holding `from`, and
\* where the next region intersecting the range starts (None: no more).
stores_for_range(sp, from, to) ==
    LET region == RegionOf(sp, from)
    IN [store |-> Store(region),
        next |-> IF region.end = KeyEnd \/ (to /= None /\ to[1] <= region.end)
                 THEN None ELSE Some(region.end)]

-----------------------------------------------------------------------------
(* Request values (the implementors of RawRequest) *)

Req0 == [kind |-> "", key |-> 0, value |-> "", keys |-> << >>, pairs |-> << >>,
         range |-> <<0, None>>, ranges |-> << >>, limit |-> 0,
         key_only |-> FALSE, cf |-> None]

RawGet(key, cf) == [Req0 EXCEPT !.kind = "RawGet", !.key = key, !.cf = cf]
RawBatchGet(keys, cf) == [Req0 EXCEPT !.kind = "RawBatchGet", !.keys = keys, !.cf = cf]
RawDelete(key, cf) == [Req0 EXCEPT !.kind = "RawDelete", !.key = key, !.cf = cf]
RawBatchDelete(keys, cf) == [Req0 EXCEPT !.kind = "RawBatchDelete", !.keys = keys, !.cf = cf]
RawDeleteRange(range, cf) == [Req0 EXCEPT !.kind = "RawDeleteRange", !.range = range, !.cf = cf]
RawScan(range, limit, key_only, cf) ==
    [Req0 EXCEPT !.kind = "RawScan", !.range = range, !.limit = limit,
                 !.key_only = key_only, !.cf = cf]
RawBatchScan(ranges, each_limit, key_only, cf) ==
    [Req0 EXCEPT !.kind = "RawBatchScan", !.ranges = ranges, !.limit = each_limit,
                 !.key_only = key_only, !.cf = cf]

RawPut_new_unchecked(key, value, cf) ==
    Ok([Req0 EXCEPT !.kind = "RawPut", !.key = key, !.value = value, !.cf = cf])

RawPut_new(key, value, cf) ==
    IF value = ""
    THEN Err(Error("EmptyValue"))
    ELSE Ok([Req0 EXCEPT !.kind = "RawPut", !.key = key, !.value = value, !.cf = cf])

RawBatchPut_new_first_only(pairs, cf) ==
    IF pairs /= << >> /\ pairs[1][2] = ""
    THEN Err(Error("EmptyValue"))
    ELSE Ok([Req0 EXCEPT !.kind = "RawBatchPut", !.pairs = pairs, !.cf = cf])

RawBatchPut_new(pairs, cf) ==
    IF \E i \in DOMAIN pairs : pairs[i][2] = ""
    THEN Err(Error("EmptyValue"))
    ELSE Ok([Req0 EXCEPT !.kind = "RawBatchPut", !.pairs = pairs, !.cf = cf])

-----------------------------------------------------------------------------
(* store_stream: the lazy sequence of (routing key, store) pairs *)

Stream0 == [type |-> "end", items |-> << >>, from |-> 0, to |-> None, err |-> NoError]

Once(item) == [Stream0 EXCEPT !.type = "once", !.items = <<item>>]
Batch(items) == [Stream0 EXCEPT !.type = "batch", !.items = items]
InRange(range) == [Stream0 EXCEPT !.type = "range", !.from = range[1], !.to = range[2]]

KeyItems(keys) == [i \in DOMAIN keys |-> <<keys[i]>>]

RawGet_store_stream(req) == Once(<<req.key>>)
RawPut_store_stream(req) == Once(<<req.key, req.value>>)
RawDelete_store_stream(req) == Once(<<req.key>>)
RawBatchGet_store_stream(req) == Batch(KeyItems(req.keys))
RawBatchPut_store_stream(req) == Batch(req.pairs)
RawBatchDelete_store_stream_skip_first(req) ==
    IF req.keys = << >> THEN Batch(<< >>) ELSE Batch(Tail(KeyItems(req.keys)))

RawBatchDelete_store_stream(req) == Batch(KeyItems(req.keys))
RawDeleteRange_store_stream_empty(req) == Stream0

RawDeleteRange_store_stream(req) == InRange(req.range)
RawScan_store_stream(req) == InRange(req.range)
RawBatchScan_store_stream_empty(req) == Stream0

RawBatchScan_store_stream_first_range(req) ==
    IF req.ranges = << >> THEN Stream0 ELSE InRange(req.ranges[1])

RawBatchScan_store_stream(req) == [Stream0 EXCEPT !.type = "err", !.err = Error("Unimplemented")]

store_stream(req) ==
    CASE req.kind = "RawGet" -> RawGet_store_stream(req)
      [] req.kind = "RawPut" -> RawPut_store_stream(req)
      [] req.kind = "RawDelete" -> RawDelete_store_stream(req)
      [] req.kind = "RawBatchGet" -> RawBatchGet_store_stream(req)
      [] req.kind = "RawBatchPut" -> RawBatchPut_store_stream(req)
      [] req.kind = "RawBatchDelete" -> RawBatchDelete_store_stream(req)
      [] req.kind = "RawDeleteRange" -> RawDeleteRange_store_stream(req)
      [] req.kind = "RawScan" -> RawScan_store_stream(req)
      [] OTHER -> RawBatchScan_store_stream(req)

\* store_stream takes &mut self: the batch requests swap their keys out.
after_store_stream(req) ==
    IF req.kind \in {"RawBatchGet", "RawBatchPut", "RawBatchDelete"}
    THEN [req EXCEPT !.keys = << >>, !.pairs = << >>]
    ELSE req

StreamEnded(st) == st.type = "end" \/ (st.type = "batch" /\ st.items = << >>)

-----------------------------------------------------------------------------
(* into_request: the wire request for one (routing key, store) pair *)

\* Store::request: an empty wire request whose context names the region.
request(store) ==
    [rpc |-> "", region |-> store.region.id, key |-> 0, value |-> "",
     keys |-> << >>, pairs |-> << >>, start_key |-> 0, end_key |-> 0,
     limit |-> 0, key_only |-> FALSE, ranges |-> << >>, cf |-> None]

\* maybe_set_cf: the field is set when a column family is given, else left out.
maybe_set_cf(wire, cf) == IF cf = None THEN wire ELSE [wire EXCEPT !.cf = cf]

Firsts(items) == [i \in DOMAIN items |-> items[i][1]]

RawGet_into_request(req, key, store) ==
    maybe_set_cf([request(store) EXCEPT !.rpc = "raw_get", !.key = key[1]], req.cf)

RawBatchGet_into_request_first_key(req, keys, store) ==
    maybe_set_cf([request(store) EXCEPT !.rpc = "raw_batch_get",
                                        !.keys = Firsts(Take(keys, 1))], req.cf)

RawBatchGet_into_request_no_cf(req, keys, store) ==
    [request(store) EXCEPT !.rpc = "raw_batch_get", !.keys = Firsts(keys)]

RawBatchGet_into_request(req, keys, store) ==
    maybe_set_cf([request(store) EXCEPT !.rpc = "raw_batch_get", !.keys = Firsts(keys)], req.cf)

RawPut_into_request(req, key, store) ==
    maybe_set_cf([request(store) EXCEPT !.rpc = "raw_put", !.key = key[1], !.value = key[2]],
                 req.cf)

RawBatchPut_into_request_first_pair(req, pairs, store) ==
    maybe_set_cf([request(store) EXCEPT !.rpc = "raw_batch_put", !.pairs = Take(pairs, 1)],
                 req.cf)

RawBatchPut_into_request(req, pairs, store) ==
    maybe_set_cf([request(store) EXCEPT !.rpc = "raw_batch_put", !.pairs = pairs], req.cf)

RawDelete_into_request(req, key, store) ==
    maybe_set_cf([request(store) EXCEPT !.rpc = "raw_delete", !.key = key[1]], req.cf)

RawBatchDelete_into_request(req, keys, store) ==
    maybe_set_cf([request(store) EXCEPT !.rpc = "raw_batch_delete", !.keys = Firsts(keys)],
                 req.cf)

RawDeleteRange_into_request(req, range, store) ==
    maybe_set_cf([request(store) EXCEPT !.rpc = "raw_delete_range",
                                        !.start_key = range[1], !.end_key = range[2]],
                 req.cf)

RawScan_into_request_no_limit(req, range, store) ==
    maybe_set_cf([request(store) EXCEPT !.rpc = "raw_scan",
                                        !.start_key = range[1], !.end_key = range[2],
                                        !.key_only = req.key_only],
                 req.cf)

RawScan_into_request(req, range, store) ==
    maybe_set_cf([request(store) EXCEPT !.rpc = "raw_scan",
                                        !.start_key = range[1], !.end_key = range[2],
                                        !.limit = req.limit, !.key_only = req.key_only],
                 req.cf)

RawBatchScan_into_request(req, ranges, store) ==
    maybe_set_cf([request(store) EXCEPT !.rpc = "raw_batch_scan", !.ranges = ranges,
                                        !.limit = req.limit, !.key_only = req.key_only],
                 req.cf)

into_request(req, key, store) ==
    CASE req.kind = "RawGet" -> RawGet_into_request(req, key, store)
      [] req.kind = "RawBatchGet" -> RawBatchGet_into_request(req, key, store)
      [] req.kind = "RawPut" -> RawPut_into_request(req, key, store)
      [] req.kind = "RawBatchPut" -> RawBatchPut_into_request(req, key, store)
      [] req.kind = "RawDelete" -> RawDelete_into_request(req, key, store)
      [] req.kind = "RawBatchDelete" -> RawBatchDelete_into_request(req, key, store)
      [] req.kind = "RawDeleteRange" -> RawDeleteRange_into_request(req, key, store)
      [] req.kind = "RawScan" -> RawScan_into_request(req, key, store)
      [] OTHER -> RawBatchScan_into_request(req, key, store)

-----------------------------------------------------------------------------
(* map_result: the partial result read from one wire response *)

Response0 == [value |-> "", pairs |-> << >>]

RawGet_map_result_keep_empty(r) == Some(r.value)

RawGet_map_result_inverted(r) == IF r.value = "" THEN Some(r.value) ELSE None

RawGet_map_result(r) == IF r.value = "" THEN None ELSE Some(r.value)

RawBatchGet_map_result(r) == r.pairs
RawScan_map_result(r) == r.pairs
RawBatchScan_map_result(r) == r.pairs

map_result(kind, r) ==
    CASE kind = "RawGet" -> RawGet_map_result(r)
      [] kind = "RawBatchGet" -> RawBatchGet_map_result(r)
      [] kind = "RawScan" -> RawScan_map_result(r)
      [] kind = "RawBatchScan" -> RawBatchScan_map_result(r)
      [] OTHER -> Unit

-----------------------------------------------------------------------------
(* reduce: the final result from the Results the stream yields *)

Panic == [ok |-> FALSE, val |-> Unit, err |-> Error("Panic")]

Errors(rs) == {i \in DOMAIN rs : ~rs[i].ok}
FirstError(rs) == rs[CHOOSE i \in Errors(rs) : \A j \in Errors(rs) : i <= j]

\* StreamExt::into_future, then expect: the first element, whatever it is.
into_future_first(rs) == IF rs = << >> THEN Panic ELSE rs[1]

Oks(rs) == SelectSeq(rs, LAMBDA r : r.ok)

try_concat_partial(rs) == Ok(Flatten([i \in DOMAIN Oks(rs) |-> Oks(rs)[i].val]))

\* TryStreamExt::try_concat: the first error, or every list appended in order.
try_concat(rs) ==
    IF Errors(rs) /= {} THEN FirstError(rs)
    ELSE Ok(Flatten([i \in DOMAIN rs |-> rs[i].val]))

\* TryStreamExt::try_collect into (): the first error, or ().
try_collect(rs) == IF Errors(rs) /= {} THEN FirstError(rs) ELSE Ok(Unit)

RawGet_reduce(rs) == into_future_first(rs)
RawPut_reduce(rs) == into_future_first(rs)
RawDelete_reduce_ignore(rs) == Ok(Unit)

RawDelete_reduce(rs) == into_future_first(rs)
RawDeleteRange_reduce(rs) == into_future_first(rs)
RawBatchGet_reduce_first(rs) == IF rs = << >> THEN Ok(<< >>) ELSE rs[1]

RawBatchGet_reduce(rs) == try_concat(rs)
RawScan_reduce_first(rs) == IF rs = << >> THEN Ok(<< >>) ELSE rs[1]

RawScan_reduce(rs) == try_concat(rs)
RawBatchScan_reduce(rs) == try_concat(rs)
RawBatchPut_reduce_first(rs) == IF rs = << >> THEN Ok(Unit) ELSE rs[1]

RawBatchPut_reduce_take_first(rs) == into_future_first(rs)

RawBatchPut_reduce(rs) == try_collect(rs)
RawBatchDelete_reduce(rs) == try_collect(rs)

reduce(kind, rs) ==
    CASE kind = "RawGet" -> RawGet_reduce(rs)
      [] kind = "RawPut" -> RawPut_reduce(rs)
      [] kind = "RawDelete" -> RawDelete_reduce(rs)
      [] kind = "RawDeleteRange" -> RawDeleteRange_reduce(rs)
      [] kind = "RawBatchGet" -> RawBatchGet_reduce(rs)
      [] kind = "RawScan" -> RawScan_reduce(rs)
      [] kind = "RawBatchScan" -> RawBatchScan_reduce(rs)
      [] kind = "RawBatchPut" -> RawBatchPut_reduce(rs)
      [] OTHER -> RawBatchDelete_reduce(rs)

TakesFirst_point_ops(kind) == kind \in {"RawGet", "RawPut", "RawDelete"}

TakesFirst(kind) == kind \in {"RawGet", "RawPut", "RawDelete", "RawDeleteRange"}

\* Whether the reduce is Ready once it has consumed rs (rs not empty): the
\* first element for into_future, an error for try_concat and try_collect.
reduce_ready_first_only(kind, rs) == TakesFirst(kind)

reduce_ready(kind, rs) == TakesFirst(kind) \/ ~rs[Len(rs)].ok

-----------------------------------------------------------------------------
(* The storage node: how a wire request is served from the store *)

AllCfs == CfNames \cup {DefaultCf}
CfOf(cf) == IF cf = None THEN DefaultCf ELSE cf[1]

RECURSIVE Ascending(_)
Ascending(S) ==
    IF S = {} THEN << >>
    ELSE LET m == CHOOSE x \in S : \A y \in S : x <= y
         IN <<m>> \o Ascending(S \ {m})

RECURSIVE PutAll(_, _)
PutAll(table, pairs) ==
    IF pairs = << >> THEN table
    ELSE PutAll([table EXCEPT ![pairs[1][1]] = Some(pairs[1][2])], Tail(pairs))

Stored(table, keys) ==
    LET Has(k) == table[k] /= None
        found == SelectSeq(keys, Has)
    IN [i \in DOMAIN found |-> <<found[i], table[found[i]][1]>>]

WireKeys(w) == {k \in Keys : w.start_key <= k /\ k < w.end_key}

node_serve(store, w) ==
    LET table == store[CfOf(w.cf)]
        Write(t) == [db |-> [store EXCEPT ![CfOf(w.cf)] = t], resp |-> Response0]
        Read(r) == [db |-> store, resp |-> r]
    IN CASE w.rpc = "raw_get" ->
              Read([Response0 EXCEPT !.value = IF table[w.key] = None THEN ""
                                               ELSE table[w.key][1]])
         [] w.rpc = "raw_batch_get" ->
              Read([Response0 EXCEPT !.pairs = Stored(table, w.keys)])
         [] w.rpc = "raw_put" -> Write([table EXCEPT ![w.key] = Some(w.value)])
         [] w.rpc = "raw_batch_put" -> Write(PutAll(table, w.pairs))
         [] w.rpc = "raw_delete" -> Write([table EXCEPT ![w.key] = None])
         [] w.rpc = "raw_batch_delete" ->
              Write([k \in Keys |-> IF k \in Range(w.keys) THEN None ELSE table[k]])
         [] w.rpc = "raw_delete_range" ->
              Write([k \in Keys |-> IF k \in WireKeys(w) THEN None ELSE table[k]])
         [] w.rpc = "raw_scan" ->
              LET found == Take(Stored(table, Ascending(WireKeys(w))), w.limit)
              IN Read([Response0 EXCEPT !.pairs =
                         IF w.key_only THEN [i \in DOMAIN found |-> <<found[i][1], "">>]
                         ELSE found])
         [] OTHER -> Read(Response0)

-----------------------------------------------------------------------------
(* RpcClient: the raw_* entry points the request futures call *)

raw_get(key, cf) == Ok(RawGet(key, cf))
raw_batch_get(keys, cf) == Ok(RawBatchGet(keys, cf))
raw_put(key, value, cf) == RawPut_new(key, value, cf)
raw_batch_put(pairs, cf) == RawBatchPut_new(pairs, cf)
raw_delete(key, cf) == Ok(RawDelete(key, cf))
raw_batch_delete(keys, cf) == Ok(RawBatchDelete(keys, cf))
raw_scan(range, limit, key_only, cf) == Ok(RawScan(range, limit, key_only, cf))
raw_batch_scan(ranges, each_limit, key_only, cf) ==
    Ok(RawBatchScan(ranges, each_limit, key_only, cf))
raw_delete_range(range, cf) == Ok(RawDeleteRange(range, cf))

-----------------------------------------------------------------------------
(* RequestInner::execute: Err(e) is future::err(e), Ok(req) is the future of *)
(* req.execute(pd_client)                                                   *)

Inner0 == [kind |-> "", key |-> 0, value |-> "", keys |-> << >>, pairs |-> << >>,
           bounds |-> <<Unbounded, Unbounded>>, range |-> Ok(<<0, None>>),
           ranges |-> << >>, limit |-> 0, key_only |-> FALSE]

GetInner_execute(inner, cf) == raw_get(inner.key, cf)
BatchGetInner_execute(inner, cf) == raw_batch_get(inner.keys, cf)
PutInner_execute(inner, cf) == raw_put(inner.key, inner.value, cf)
BatchPutInner_execute(inner, cf) == raw_batch_put(inner.pairs, cf)
DeleteInner_execute(inner, cf) == raw_delete(inner.key, cf)
BatchDeleteInner_execute(inner, cf) == raw_batch_delete(inner.keys, cf)

ScanInner_execute_no_limit_check(inner, cf) ==
    LET keys == into_keys(inner.bounds)
    IN IF ~keys.ok THEN Err(keys.err)
       ELSE raw_scan(keys.val, inner.limit, inner.key_only, cf)

ScanInner_execute_range_unchecked(inner, cf) ==
    IF inner.limit > MAX_RAW_KV_SCAN_LIMIT
    THEN Err(max_scan_limit_exceeded(inner.limit, MAX_RAW_KV_SCAN_LIMIT))
    ELSE raw_scan(<<RangeStart(inner.bounds), RangeEnd(inner.bounds)>>,
                  inner.limit, inner.key_only, cf)

ScanInner_execute(inner, cf) ==
    IF inner.limit > MAX_RAW_KV_SCAN_LIMIT
    THEN Err(max_scan_limit_exceeded(inner.limit, MAX_RAW_KV_SCAN_LIMIT))
    ELSE LET keys == into_keys(inner.bounds)
         IN IF ~keys.ok THEN Err(keys.err)
            ELSE raw_scan(keys.val, inner.limit, inner.key_only, cf)

Vals(rs) == [i \in DOMAIN rs |-> rs[i].val]

BatchScanInner_execute_no_limit_check(inner, cf) ==
    IF \E i \in DOMAIN inner.ranges : ~inner.ranges[i].ok
    THEN Err(Error("InvalidKeyRange"))
    ELSE raw_batch_scan(Vals(inner.ranges), inner.limit, inner.key_only, cf)

BatchScanInner_execute_range_first(inner, cf) ==
    IF \E i \in DOMAIN inner.ranges : ~inner.ranges[i].ok
    THEN Err(Error("InvalidKeyRange"))
    ELSE IF inner.limit > MAX_RAW_KV_SCAN_LIMIT
    THEN Err(max_scan_limit_exceeded(inner.limit, MAX_RAW_KV_SCAN_LIMIT))
    ELSE raw_batch_scan(Vals(inner.ranges), inner.limit, inner.key_only, cf)

BatchScanInner_execute(inner, cf) ==
    IF inner.limit > MAX_RAW_KV_SCAN_LIMIT
    THEN Err(max_scan_limit_exceeded(inner.limit, MAX_RAW_KV_SCAN_LIMIT))
    ELSE IF \E i \in DOMAIN inner.ranges : ~inner.ranges[i].ok
    THEN Err(Error("InvalidKeyRange"))
    ELSE raw_batch_scan(Vals(inner.ranges), inner.limit, inner.key_only, cf)

DeleteRangeInner_execute(inner, cf) ==
    IF inner.range.ok THEN raw_delete_range(inner.range.val, cf)
    ELSE Err(inner.range.err)

execute_inner(inner, cf) ==
    CASE inner.kind = "Get" -> GetInner_execute(inner, cf)
      [] inner.kind = "BatchGet" -> BatchGetInner_execute(inner, cf)
      [] inner.kind = "Put" -> PutInner_execute(inner, cf)
      [] inner.kind = "BatchPut" -> BatchPutInner_execute(inner, cf)
      [] inner.kind = "Delete" -> DeleteInner_execute(inner, cf)
      [] inner.kind = "BatchDelete" -> BatchDeleteInner_execute(inner, cf)
      [] inner.kind = "Scan" -> ScanInner_execute(inner, cf)
      [] inner.kind = "BatchScan" -> BatchScanInner_execute(inner, cf)
      [] OTHER -> DeleteRangeInner_execute(inner, cf)

-----------------------------------------------------------------------------
(* RawRequest::execute: the future, stepped from one suspension to the next *)

Store0 == Store([id |-> 0, start |-> 0, end |-> 0])
Cur0 == [key |-> << >>, id |-> 0, store |-> Store0]

Ready(kind, st, rs) ==
    [pc |-> "done", io |-> "idle", stream |-> st, parts |-> rs,
     result |-> Some(reduce(kind, rs)), looked |-> 0]

\* The reduce polls the stream, having consumed rs: the stream has ended, or
\* yields an error at once, or needs a topology lookup for its next element.
pull(kind, st, rs) ==
    CASE StreamEnded(st) -> Ready(kind, st, rs)
      [] st.type = "err" -> Ready(kind, Stream0, Append(rs, Err(st.err)))
      [] OTHER ->
           [pc |-> IF st.type = "batch" THEN "group" ELSE "store", io |-> "pending",
            stream |-> st, parts |-> rs, result |-> None, looked |-> 1]

feed_skip_errors(kind, st, rs, r) ==
    IF ~r.ok THEN pull(kind, st, rs)
    ELSE IF reduce_ready(kind, Append(rs, r))
    THEN Ready(kind, st, Append(rs, r))
    ELSE pull(kind, st, Append(rs, r))

\* The stream yields r to the reduce.
feed(kind, st, rs, r) ==
    IF reduce_ready(kind, Append(rs, r))
    THEN Ready(kind, st, Append(rs, r))
    ELSE pull(kind, st, Append(rs, r))

Step(n) ==
    /\ pc' = n.pc
    /\ io' = n.io
    /\ stream' = n.stream
    /\ parts' = n.parts
    /\ result' = n.result
    /\ lookups' = lookups + n.looked

Running == state = "Initiated" /\ result = None

-----------------------------------------------------------------------------
(* Client: constructing a request *)

Input0 == [op |-> "", key |-> 0, value |-> "", keys |-> << >>, pairs |-> << >>,
           range |-> <<Unbounded, Unbounded>>, ranges |-> << >>, limit |-> 0]

new_eager(args, inner) ==
    /\ state = "Unbuilt"
    /\ state' = "Uninitiated"
    /\ payload' = Some([inner |-> inner, cf |-> None])
    /\ input' = Some(args)
    /\ executes' = executes + 1
    /\ lookups' = lookups + 1
    /\ UNCHANGED <<splits, db, self, pc, io, stream, cur, parts, result,
                   sent, replies, resp>>

\* RequestState::new
new(args, inner) ==
    /\ state = "Unbuilt"
    /\ state' = "Uninitiated"
    /\ payload' = Some([inner |-> inner, cf |-> None])
    /\ input' = Some(args)
    /\ UNCHANGED <<splits, db, executes, self, pc, io, stream, cur, parts, result,
                   sent, replies, resp, lookups>>

get ==
    \E key \in Keys :
        new([Input0 EXCEPT !.op = "get", !.key = key],
            [Inner0 EXCEPT !.kind = "Get", !.key = key])

batch_get ==
    \E keys \in SeqsUpTo(Keys, MaxBatch) :
        new([Input0 EXCEPT !.op = "batch_get", !.keys = keys],
            [Inner0 EXCEPT !.kind = "BatchGet", !.keys = keys])

put ==
    \E key \in Keys, value \in Values :
        new([Input0 EXCEPT !.op = "put", !.key = key, !.value = value],
            [Inner0 EXCEPT !.kind = "Put", !.key = key, !.value = value])

batch_put ==
    \E pairs \in SeqsUpTo(Keys \X Values, MaxBatch) :
        new([Input0 EXCEPT !.op = "batch_put", !.pairs = pairs],
            [Inner0 EXCEPT !.kind = "BatchPut", !.pairs = pairs])

delete ==
    \E key \in Keys :
        new([Input0 EXCEPT !.op = "delete", !.key = key],
            [Inner0 EXCEPT !.kind = "Delete", !.key = key])

batch_delete ==
    \E keys \in SeqsUpTo(Keys, MaxBatch) :
        new([Input0 EXCEPT !.op = "batch_delete", !.keys = keys],
            [Inner0 EXCEPT !.kind = "BatchDelete", !.keys = keys])

scan ==
    \E range \in BoundRanges, limit \in Limits :
        new([Input0 EXCEPT !.op = "scan", !.range = range, !.limit = limit],
            [Inner0 EXCEPT !.kind = "Scan", !.bounds = range, !.limit = limit])

batch_scan ==
    \E ranges \in SeqsUpTo(BoundRanges, MaxRanges), each_limit \in Limits :
        new([Input0 EXCEPT !.op = "batch_scan", !.ranges = ranges, !.limit = each_limit],
            [Inner0 EXCEPT !.kind = "BatchScan",
                           !.ranges = [i \in DOMAIN ranges |-> into_keys(ranges[i])],
                           !.limit = each_limit])

delete_range ==
    \E range \in BoundRanges :
        new([Input0 EXCEPT !.op = "delete_range", !.range = range],
            [Inner0 EXCEPT !.kind = "DeleteRange", !.range = into_keys(range)])

-----------------------------------------------------------------------------
(* Builder-style modifiers *)

cf_anytime ==
    \E new_cf \in CfNames :
        /\ state \in {"Uninitiated", "Initiated"}
        /\ payload' = IF payload /= None
                      THEN Some([payload[1] EXCEPT !.cf = Some(new_cf)])
                      ELSE payload
        /\ self' = IF self /= None THEN Some([self[1] EXCEPT !.cf = Some(new_cf)]) ELSE self
        /\ UNCHANGED <<splits, db, input, state, executes, pc, io, stream, cur,
                       parts, result, sent, replies, resp, lookups>>

\* RequestState::cf
cf ==
    \E new_cf \in CfNames :
        /\ state \in {"Uninitiated", "Initiated"}
        /\ payload' = IF state = "Uninitiated" /\ payload /= None
                      THEN Some([payload[1] EXCEPT !.cf = Some(new_cf)])
                      ELSE payload
        /\ UNCHANGED <<splits, db, input, state, executes, self, pc, io, stream, cur,
                       parts, result, sent, replies, resp, lookups>>

key_only_take ==
    /\ state \in {"Uninitiated", "Initiated"}
    /\ input[1].op \in {"scan", "batch_scan"}
    /\ payload' = None
    /\ UNCHANGED <<splits, db, input, state, executes, self, pc, io, stream, cur,
                   parts, result, sent, replies, resp, lookups>>

\* Scan::key_only and BatchScan::key_only, through RequestState::inner_mut
key_only ==
    /\ state \in {"Uninitiated", "Initiated"}
    /\ input[1].op \in {"scan", "batch_scan"}
    /\ payload' = IF state = "Uninitiated" /\ payload /= None
                  THEN Some([payload[1] EXCEPT !.inner.key_only = TRUE])
                  ELSE payload
    /\ UNCHANGED <<splits, db, input, state, executes, self, pc, io, stream, cur,
                   parts, result, sent, replies, resp, lookups>>

-----------------------------------------------------------------------------
(* RequestState::poll *)

poll_uninitiated_keep ==
    /\ state = "Uninitiated"
    /\ payload /= None
    /\ LET started == execute_inner(payload[1].inner, payload[1].cf)
       IN /\ state' = "Uninitiated"
          /\ payload' = payload
          /\ executes' = executes + 1
          /\ IF started.ok
             THEN /\ self' = Some(after_store_stream(started.val))
                  /\ Step(pull(started.val.kind, store_stream(started.val), << >>))
             ELSE /\ self' = None
                  /\ pc' = "done"
                  /\ result' = Some(Err(started.err))
                  /\ UNCHANGED <<io, stream, parts, lookups>>
    /\ UNCHANGED <<splits, db, input, cur, sent, replies, resp>>

\* The first poll: assure_initialized takes the payload, runs execute and stores
\* the future; the future is then polled for the first time.
poll_uninitiated ==
    /\ state = "Uninitiated"
    /\ payload /= None
    /\ LET started == execute_inner(payload[1].inner, payload[1].cf)
       IN /\ state' = "Initiated"
          /\ payload' = None
          /\ executes' = executes + 1
          /\ IF started.ok
             THEN /\ self' = Some(after_store_stream(started.val))
                  /\ Step(pull(started.val.kind, store_stream(started.val), << >>))
             ELSE /\ self' = None
                  /\ pc' = "done"
                  /\ result' = Some(Err(started.err))
                  /\ UNCHANGED <<io, stream, parts, lookups>>
    /\ UNCHANGED <<splits, db, input, cur, sent, replies, resp>>

\* A poll while the awaited I/O has not completed changes nothing.
poll_pending ==
    /\ Running
    /\ io = "pending"
    /\ UNCHANGED vars

\* group_keys_by_region yielded (region id, group): store_for_id is awaited next.
poll_grouped ==
    /\ Running /\ pc = "group" /\ io = "ok"
    /\ LET g == group_keys_by_region(splits, stream.items)
       IN /\ cur' = [Cur0 EXCEPT !.key = g.group, !.id = g.id]
          /\ stream' = [stream EXCEPT !.items = g.rest]
    /\ pc' = "store"
    /\ io' = "pending"
    /\ lookups' = lookups + 1
    /\ UNCHANGED <<splits, db, input, state, payload, executes, self, parts, result,
                   sent, replies, resp>>

\* The key and the store of the stream's next element.
resolved ==
    CASE stream.type = "once" ->
           [key |-> stream.items[1], store |-> store_for_key(splits, stream.items[1][1]),
            rest |-> Stream0]
      [] stream.type = "batch" ->
           [key |-> cur.key, store |-> store_for_id(splits, cur.id), rest |-> stream]
      [] OTHER ->
           LET n == stores_for_range(splits, stream.from, stream.to)
           IN [key |-> region_range(n.store.region), store |-> n.store,
               rest |-> IF n.next = None THEN Stream0
                        ELSE [stream EXCEPT !.from = n.next[1]]]

poll_resolved_concurrent ==
    /\ Running /\ pc = "store" /\ io = "ok"
    /\ cur' = [Cur0 EXCEPT !.key = resolved.key, !.store = resolved.store]
    /\ stream' = resolved.rest
    /\ sent' = Append(sent, into_request(self[1], resolved.key, resolved.store))
    /\ IF StreamEnded(resolved.rest)
       THEN pc' = "dispatch" /\ lookups' = lookups
       ELSE /\ pc' = IF resolved.rest.type = "batch" THEN "group" ELSE "store"
            /\ lookups' = lookups + 1
    /\ io' = "pending"
    /\ UNCHANGED <<splits, db, input, state, payload, executes, self, parts, result,
                   replies, resp>>

\* store_stream yielded (key, store): the wire request is built and dispatched.
poll_resolved ==
    /\ Running /\ pc = "store" /\ io = "ok"
    /\ cur' = [Cur0 EXCEPT !.key = resolved.key, !.store = resolved.store]
    /\ stream' = resolved.rest
    /\ sent' = Append(sent, into_request(self[1], resolved.key, resolved.store))
    /\ pc' = "dispatch"
    /\ io' = "pending"
    /\ UNCHANGED <<splits, db, input, state, payload, executes, self, parts, result,
                   replies, resp, lookups>>

poll_unresolved_dispatch ==
    /\ Running /\ pc \in {"group", "store"} /\ io = "err"
    /\ sent' = Append(sent, maybe_set_cf(request(cur.store), self[1].cf))
    /\ Step(feed(self[1].kind, stream, parts, Err(Error("Resolution"))))
    /\ UNCHANGED <<splits, db, input, state, payload, executes, self, cur,
                   replies, resp>>

\* A topology lookup failed: the stream yields the error.
poll_unresolved ==
    /\ Running /\ pc \in {"group", "store"} /\ io = "err"
    /\ Step(feed(self[1].kind, stream, parts, Err(Error("Resolution"))))
    /\ UNCHANGED <<splits, db, input, state, payload, executes, self, cur, sent,
                   replies, resp>>

\* The node answered: the response is mapped and yielded.
poll_responded ==
    /\ Running /\ pc = "dispatch" /\ io = "ok"
    /\ Step(feed(self[1].kind, stream, parts, Ok(map_result(self[1].kind, resp))))
    /\ UNCHANGED <<splits, db, input, state, payload, executes, self, cur, sent,
                   replies, resp>>

poll_failed_compensate ==
    /\ Running /\ pc = "dispatch" /\ io = "err"
    /\ LET done == {i \in DOMAIN replies : replies[i] = "ok"}
           undone == UNION {{sent[i].pairs[j][1] : j \in DOMAIN sent[i].pairs}
                              \cup Range(sent[i].keys) : i \in done}
       IN /\ sent' = Append(sent, maybe_set_cf([request(cur.store) EXCEPT
                                                  !.rpc = "raw_batch_delete",
                                                  !.keys = Ascending(undone)],
                                               self[1].cf))
          /\ db' = [db EXCEPT ![CfOf(self[1].cf)] =
                       [k \in Keys |-> IF k \in undone THEN None ELSE @[k]]]
    /\ Step(feed(self[1].kind, stream, parts, Err(Error("Dispatch"))))
    /\ UNCHANGED <<splits, input, state, payload, executes, self, cur, replies, resp>>

poll_failed_retry ==
    /\ Running /\ pc = "dispatch" /\ io = "err"
    /\ sent' = Append(sent, sent[Len(sent)])
    /\ io' = "pending"
    /\ UNCHANGED <<splits, db, input, state, payload, executes, self, pc, stream, cur,
                   parts, result, replies, resp, lookups>>

\* The dispatch failed: the error is yielded.
poll_failed ==
    /\ Running /\ pc = "dispatch" /\ io = "err"
    /\ Step(feed(self[1].kind, stream, parts, Err(Error("Dispatch"))))
    /\ UNCHANGED <<splits, db, input, state, payload, executes, self, cur, sent,
                   replies, resp>>

-----------------------------------------------------------------------------
(* Dropping the request *)

drop_flush ==
    /\ state \in {"Uninitiated", "Initiated"}
    /\ result = None
    /\ state' = "Dropped"
    /\ payload' = None
    /\ self' = None
    /\ pc' = "idle"
    /\ io' = "idle"
    /\ stream' = Stream0
    /\ cur' = Cur0
    /\ parts' = << >>
    /\ resp' = Response0
    /\ sent' = IF pc = "store" /\ io = "ok"
               THEN Append(sent, into_request(self[1], resolved.key, resolved.store))
               ELSE sent
    /\ UNCHANGED <<splits, db, input, executes, result, replies, lookups>>

\* The request value is dropped before its result is Ready: the payload or the
\* boxed future it holds is dropped with it, and nothing polls the future
\* again.  A wire request already handed to the transport may or may not still
\* reach its node.
drop ==
    /\ state \in {"Uninitiated", "Initiated"}
    /\ result = None
    /\ state' = "Dropped"
    /\ payload' = None
    /\ self' = None
    /\ pc' = "idle"
    /\ io' = "idle"
    /\ stream' = Stream0
    /\ cur' = Cur0
    /\ parts' = << >>
    /\ resp' = Response0
    /\ db' \in IF pc = "dispatch" /\ io = "pending"
               THEN {db, node_serve(db, sent[Len(sent)]).db}
               ELSE {db}
    /\ UNCHANGED <<splits, input, executes, result, sent, replies, lookups>>

-----------------------------------------------------------------------------
(* The environment: the topology resolver and the nodes answer *)

lookup_ok ==
    /\ Running /\ pc \in {"group", "store"} /\ io = "pending"
    /\ io' = "ok"
    /\ UNCHANGED <<splits, db, input, state, payload, executes, self, pc, stream, cur,
                   parts, result, sent, replies, resp, lookups>>

lookup_err ==
    /\ Running /\ pc \in {"group", "store"} /\ io = "pending"
    /\ io' = "err"
    /\ UNCHANGED <<splits, db, input, state, payload, executes, self, pc, stream, cur,
                   parts, result, sent, replies, resp, lookups>>

node_ok ==
    /\ Running /\ pc = "dispatch" /\ io = "pending"
    /\ LET served == node_serve(db, sent[Len(sent)])
       IN /\ db' = served.db
          /\ resp' = served.resp
    /\ io' = "ok"
    /\ replies' = Append(replies, "ok")
    /\ UNCHANGED <<splits, input, state, payload, executes, self, pc, stream, cur,
                   parts, result, sent, lookups>>

node_err ==
    /\ Running /\ pc = "dispatch" /\ io = "pending"
    /\ io' = "err"
    /\ replies' = Append(replies, "err")
    /\ UNCHANGED <<splits, db, input, state, payload, executes, self, pc, stream, cur,
                   parts, result, sent, resp, lookups>>

-----------------------------------------------------------------------------
(* The specification *)

FullStore == [k \in Keys |-> IF k % 2 = 0 THEN Some("v1") ELSE Some("v2")]
SparseStore == [k \in Keys |-> IF k % 2 = 0 THEN Some("") ELSE None]
InitialStores == {[c \in AllCfs |-> FullStore], [c \in AllCfs |-> SparseStore]}

Init ==
    /\ splits \in SUBSET (1 .. MaxKey)
    /\ db \in InitialStores
    /\ input = None
    /\ state = "Unbuilt"
    /\ payload = None
    /\ executes = 0
    /\ self = None
    /\ pc = "idle"
    /\ io = "idle"
    /\ stream = Stream0
    /\ cur = Cur0
    /\ parts = << >>
    /\ result = None
    /\ sent = << >>
    /\ replies = << >>
    /\ resp = Response0
    /\ lookups = 0

Next ==
    \/ get \/ batch_get \/ put \/ batch_put \/ delete \/ batch_delete
    \/ scan \/ batch_scan \/ delete_range
    \/ cf \/ key_only
    \/ poll_uninitiated \/ poll_pending \/ poll_grouped \/ poll_resolved
    \/ poll_unresolved \/ poll_responded \/ poll_failed
    \/ drop
    \/ lookup_ok \/ lookup_err \/ node_ok \/ node_err

Spec == Init /\ [][Next]_vars

-----------------------------------------------------------------------------
(* A caller that awaits one request and then issues the next: a BatchPut, a  *)
(* Get of a key it wrote, a BatchDelete of the keys it wrote, a Get again    *)

\* RequestState::new for the next request, once the result of the one before was
\* awaited: a new request value, with a future of its own, on the same store.
next_request(args, inner) ==
    /\ state = "Initiated"
    /\ result /= None /\ result[1].ok
    /\ state' = "Uninitiated"
    /\ payload' = Some([inner |-> inner, cf |-> None])
    /\ input' = <<args>> \o input
    /\ executes' = 0
    /\ self' = None
    /\ pc' = "idle"
    /\ io' = "idle"
    /\ stream' = Stream0
    /\ cur' = Cur0
    /\ parts' = << >>
    /\ result' = None
    /\ sent' = << >>
    /\ replies' = << >>
    /\ resp' = Response0
    /\ lookups' = 0
    /\ UNCHANGED <<splits, db>>

WrittenPairs == input[Len(input)].pairs

get_written ==
    /\ input /= None /\ input[1].op \in {"batch_put", "batch_delete"}
    /\ \E i \in DOMAIN WrittenPairs :
           next_request([Input0 EXCEPT !.op = "get", !.key = WrittenPairs[i][1]],
                        [Inner0 EXCEPT !.kind = "Get", !.key = WrittenPairs[i][1]])

batch_delete_written ==
    /\ Len(input) = 2 /\ input[1].op = "get"
    /\ next_request([Input0 EXCEPT !.op = "batch_delete", !.keys = Firsts(WrittenPairs)],
                    [Inner0 EXCEPT !.kind = "BatchDelete", !.keys = Firsts(WrittenPairs)])

NextRoundTrip ==
    \/ batch_put
    \/ get_written \/ batch_delete_written
    \/ poll_uninitiated \/ poll_pending \/ poll_grouped \/ poll_resolved
    \/ poll_unresolved \/ poll_responded \/ poll_failed
    \/ lookup_ok \/ lookup_err \/ node_ok \/ node_err

RoundTrip == Init /\ [][NextRoundTrip]_vars

-----------------------------------------------------------------------------
(* Properties *)

Built == input /= None
Done == result /= None
Op(o) == Built /\ input[1].op = o
Untouched == lookups = 0 /\ sent = << >>
FailedWith(e) == Done /\ result[1] = Err(e)

\* C1: a Put whose value is empty fails with the empty-value error when
\* RawPut::new validates it, and no topology lookup and no wire dispatch ever
\* happens for it; a Put with a non-empty value passes validation, so its
\* request runs and never fails with the empty-value error.
C1_PutEmptyValue ==
    Op("put") =>
        /\ input[1].value = "" =>
               /\ Untouched
               /\ self = None
               /\ state = "Initiated" => FailedWith(Error("EmptyValue"))
        /\ input[1].value /= "" =>
               /\ state = "Initiated" => self /= None
               /\ Done /\ ~result[1].ok => result[1].err.kind /= "EmptyValue"

C1_Witness == Op("put") /\ input[1].value = "" /\ FailedWith(Error("EmptyValue"))

HasEmptyValue(pairs) == \E i \in DOMAIN pairs : pairs[i][2] = ""

\* C2: a BatchPut with at least one empty value fails with the empty-value
\* error and dispatches nothing, not even the valid pairs of other regions.
C2_BatchPutEmptyValue ==
    Op("batch_put") /\ HasEmptyValue(input[1].pairs) =>
        /\ Untouched
        /\ self = None
        /\ state = "Initiated" => FailedWith(Error("EmptyValue"))

C2_Witness ==
    /\ Op("batch_put")
    /\ Len(input[1].pairs) = 2
    /\ input[1].pairs[1][2] /= ""
    /\ input[1].pairs[2][2] = ""
    /\ RegionOf(splits, input[1].pairs[1][1]) /= RegionOf(splits, input[1].pairs[2][1])
    /\ FailedWith(Error("EmptyValue"))

\* C3: a Scan with limit > 10240 fails with the limit-exceeded error carrying
\* the requested limit and 10240, with no topology lookup and no dispatch; a
\* Scan with limit <= 10240 (10240 included) is not rejected by the limit check.
C3_ScanLimit ==
    Op("scan") =>
        /\ input[1].limit > 10240 =>
               /\ Untouched
               /\ state = "Initiated" =>
                      FailedWith(max_scan_limit_exceeded(input[1].limit, 10240))
        /\ input[1].limit <= 10240 /\ Done /\ ~result[1].ok =>
               result[1].err.kind /= "MaxScanLimitExceeded"

C3_Witness ==
    /\ Op("scan") /\ input[1].limit = 10241
    /\ FailedWith(max_scan_limit_exceeded(10241, 10240))

\* C4: a BatchScan with each_limit > 10240 fails with the limit-exceeded error
\* carrying each_limit and 10240, before any dispatch.
C4_BatchScanLimit ==
    Op("batch_scan") /\ input[1].limit > 10240 =>
        /\ Untouched
        /\ state = "Initiated" =>
               FailedWith(max_scan_limit_exceeded(input[1].limit, 10240))

C4_Witness ==
    /\ Op("batch_scan") /\ input[1].limit = 10241 /\ input[1].ranges /= << >>
    /\ FailedWith(max_scan_limit_exceeded(10241, 10240))

AllValid(ranges) == \A i \in DOMAIN ranges : into_keys(ranges[i]).ok

\* C5 as stated: BatchScan always fails with the not-implemented error,
\* whatever its ranges, each_limit, key_only flag and column family.
C5_Original == Op("batch_scan") /\ Done => result[1] = Err(Error("Unimplemented"))

\* C5 as amended: BatchScan always fails, whatever its input; the error is
\* not-implemented exactly when each_limit <= 10240 and every range is valid,
\* and otherwise the limit-exceeded or the invalid-key-range error.
C5_BatchScanAlwaysFails ==
    Op("batch_scan") /\ state = "Initiated" =>
        /\ Done
        /\ ~result[1].ok
        /\ result[1].err.kind \in {"Unimplemented", "MaxScanLimitExceeded", "InvalidKeyRange"}
        /\ result[1].err.kind = "Unimplemented" <=>
               input[1].limit <= 10240 /\ AllValid(input[1].ranges)

C5_Witness ==
    /\ Op("batch_scan")
    /\ input[1].ranges /= << >>
    /\ self /= None /\ self[1].key_only /\ self[1].cf /= None
    /\ FailedWith(Error("Unimplemented"))

InvalidRange(r) == ~into_keys(r).ok

Stored1(key) == db[CfOf(self[1].cf)][key]

\* C7: Get maps a response with an empty value to None and a response with a
\* non-empty value v to Some(v); so a key with no stored value and a key with a
\* stored empty value give the same result, None.
C7_GetAbsence ==
    Op("get") /\ Done /\ result[1].ok =>
        /\ result[1].val = (IF resp.value = "" THEN None ELSE Some(resp.value))
        /\ Stored1(input[1].key) \in {None, Some("")} => result[1].val = None
        /\ Stored1(input[1].key) \notin {None, Some("")} =>
               result[1].val = Stored1(input[1].key)

C7_Witness ==
    /\ Op("get") /\ Done
    /\ Stored1(input[1].key) = Some("")
    /\ result[1] = Ok(None)

\* C8: a successful DeleteRange leaves no key of the caller's range stored,
\* also when the range intersects more than one region.
C8_DeleteRangeDeletesAll ==
    Op("delete_range") /\ Done /\ result[1].ok =>
        \A k \in Keys :
            InKeyRange(k, into_keys(input[1].range).val) => Stored1(k) = None

BatchItems == IF Op("batch_put") THEN input[1].pairs ELSE KeyItems(input[1].keys)
Touched == {RegionOf(splits, BatchItems[i][1]) : i \in DOMAIN BatchItems}
GroupOf(items, region) ==
    LET In(it) == region_contains(region, it[1])
    IN SelectSeq(items, In)
Carried(w) == IF w.rpc = "raw_batch_put" THEN w.pairs ELSE KeyItems(w.keys)
Written(region) ==
    \E i \in DOMAIN replies :
        /\ replies[i] = "ok"
        /\ sent[i].region = region.id
        /\ Carried(sent[i]) = GroupOf(BatchItems, region)

\* C9: a BatchPut (a BatchDelete) succeeds exactly when the write (the delete)
\* of every region group was dispatched and succeeded; when the dispatch of any
\* region group fails, the operation fails.
C9_BatchWriteAllOrError ==
    (Op("batch_put") \/ Op("batch_delete")) /\ Done =>
        /\ result[1].ok <=> \A region \in Touched : Written(region)
        /\ (\E i \in DOMAIN replies : replies[i] = "err") => ~result[1].ok

C9_Witness ==
    /\ Op("batch_put") /\ Done
    /\ replies = <<"ok", "err">>
    /\ ~result[1].ok

Permuted(rs, f) == [i \in DOMAIN rs |-> rs[f[i]]]
Returned(r) == [ok |-> r.ok, pairs |-> IF r.ok THEN Range(r.val) ELSE {}]

\* C10: for BatchGet and Scan, feeding the per-region results to the reduce in
\* any other completion order gives the same set of pairs (or an error just the
\* same); only the order of the list may differ.
C10_CompletionOrder ==
    (Op("batch_get") \/ Op("scan")) /\ Done /\ self /= None =>
        \A f \in Permutations(DOMAIN parts) :
            Returned(reduce(self[1].kind, Permuted(parts, f))) = Returned(result[1])

C10_Witness ==
    /\ Op("batch_get") /\ Done /\ result[1].ok
    /\ Len(parts) = 2
    /\ parts[1].val /= << >> /\ parts[2].val /= << >>
    /\ reduce(self[1].kind, <<parts[2], parts[1]>>) /= result[1]

Concatenates == self /= None /\ self[1].kind \in {"RawBatchGet", "RawScan", "RawBatchScan"}

\* C11: a failed operation delivers no partial result: the outcome is an error
\* carrying no value, or a success computed from successful parts only; when a
\* BatchGet or Scan meets an error, the pairs already accumulated from earlier
\* regions are not delivered, and a successful BatchGet or Scan is the
\* concatenation of the results of every element of its stream.
C11_NoPartialResult ==
    Done =>
        /\ ~result[1].ok => result[1].val = Unit
        /\ Errors(parts) /= {} => ~result[1].ok /\ result[1].val = Unit
        /\ result[1].ok /\ Concatenates =>
               /\ StreamEnded(stream)
               /\ result[1].val = Flatten(Vals(parts))

C11_Witness ==
    /\ Op("batch_get") /\ Done
    /\ Len(parts) = 2
    /\ parts[1].ok /\ parts[1].val /= << >>
    /\ ~parts[2].ok
    /\ result[1] = Err(Error("Dispatch"))

\* C12: no error is swallowed: once a topology lookup or a dispatch made for
\* the operation has failed, the next step of the operation ends it with an
\* error, and a finished operation that met any such failure has an error as
\* its result.
C12_NoErrorSwallowed ==
    /\ [](Done /\ (Errors(parts) /= {} \/ "err" \in Range(replies)) => ~result[1].ok)
    /\ [][io = "err" /\ state' = "Initiated" => Done' /\ ~result'[1].ok]_vars

C12_Witness ==
    /\ Op("scan") /\ Done
    /\ Len(parts) = 2
    /\ parts[1].ok /\ parts[2] = Err(Error("Resolution"))
    /\ result[1] = Err(Error("Resolution"))

\* C13: initiation is lazy: constructing a request and applying cf or key_only
\* to it performs no topology lookup and no dispatch and does not call execute;
\* execute runs once, at the first poll, which is what moves the request from
\* Uninitiated to Initiated.
C13_LazyInitiation ==
    /\ state \in {"Unbuilt", "Uninitiated"} =>
           /\ Untouched
           /\ executes = 0
           /\ self = None /\ pc = "idle" /\ io = "idle"
           /\ result = None
    /\ state = "Uninitiated" => payload /= None
    /\ state = "Initiated" => executes = 1 /\ payload = None
    /\ executes = 0 => Untouched
    /\ executes <= 1

C13_Witness ==
    /\ state = "Uninitiated"
    /\ Op("scan")
    /\ payload[1].cf /= None
    /\ payload[1].inner.key_only
    /\ Untouched /\ executes = 0

Initiation == state = "Uninitiated" /\ state' = "Initiated" /\ self' /= None

\* C14: a cf or key_only call made after the request was initiated changes
\* nothing: the running computation, its column family and its key_only flag
\* stay as they were; a call made before initiation changes the payload only,
\* what it set stays set, execute receives it, and every wire request carries it.
C14_ModifierAfterInitiation ==
    /\ [][state = "Initiated" /\ state' = "Initiated" =>
              self' = self /\ payload' = payload]_vars
    /\ [][state = "Uninitiated" /\ state' = "Uninitiated" =>
              /\ payload[1].cf /= None => payload'[1].cf /= None
              /\ payload[1].inner.key_only => payload'[1].inner.key_only
              /\ payload' /= payload =>
                     \/ payload'[1].cf /= None /\ payload'[1].inner = payload[1].inner
                     \/ /\ payload'[1].inner = [payload[1].inner EXCEPT !.key_only = TRUE]
                        /\ payload'[1].cf = payload[1].cf]_vars
    /\ [][Initiation =>
              /\ self'[1].cf = payload[1].cf
              /\ self'[1].key_only = payload[1].inner.key_only]_vars
    /\ [](self /= None =>
              \A i \in DOMAIN sent :
                  /\ sent[i].cf = self[1].cf
                  /\ sent[i].key_only = self[1].key_only)

C14_Witness ==
    /\ Op("scan") /\ state = "Initiated"
    /\ Len(sent) = 2
    /\ self[1].cf /= None /\ self[1].key_only
    /\ \A i \in DOMAIN sent : sent[i].cf = self[1].cf /\ sent[i].key_only

\* C15: every wire request built for an operation carries the column family
\* that was set on the request when it was first polled, and omits the field
\* when none was set.
C15_ColumnFamilyEncoding ==
    /\ [][Initiation => self'[1].cf = payload[1].cf]_vars
    /\ [](self /= None => \A i \in DOMAIN sent : sent[i].cf = self[1].cf)

C15_Witness ==
    /\ Op("batch_get") /\ state = "Initiated"
    /\ Len(sent) = 2
    /\ sent[1].cf = Some("cf1") /\ sent[2].cf = Some("cf1")

\* C16: dropping a request before its result is Ready cancels it: the drop
\* itself and every later step issue no topology lookup and no wire dispatch,
\* run no execute, and no result, partial or complete, is ever delivered.
C16_DropCancels ==
    /\ [](state = "Dropped" => result = None /\ self = None /\ payload = None)
    /\ [][state' = "Dropped" =>
              /\ sent' = sent
              /\ lookups' = lookups
              /\ executes' = executes
              /\ result' = result]_vars
    /\ [][state = "Dropped" => state' = "Dropped"]_vars

C16_Witness ==
    /\ state = "Dropped"
    /\ Op("batch_put")
    /\ Cardinality(Touched) = 2
    /\ Len(sent) = 1 /\ replies = << >>
    /\ result = None

LastValue(pairs, key) ==
    LET at == {i \in DOMAIN pairs : pairs[i][1] = key}
    IN pairs[CHOOSE i \in at : \A j \in at : j <= i][2]

\* C17: against a store that applies the wire requests, a Get that follows a
\* successful BatchPut returns Some(v) for a written key, v being the value the
\* batch gave it (the last one, when the batch names the key twice); a Get that
\* follows a successful BatchDelete of the written keys returns None.
C17_RoundTrip ==
    Op("get") /\ Len(input) >= 2 /\ Done /\ result[1].ok =>
        IF Len(input) = 2
        THEN result[1].val = Some(LastValue(WrittenPairs, input[1].key))
        ELSE result[1].val = None

C17_Witness ==
    /\ Op("get") /\ Len(input) = 4 /\ Done
    /\ Len(WrittenPairs) = 2
    /\ RegionOf(splits, WrittenPairs[1][1]) /= RegionOf(splits, WrittenPairs[2][1])
    /\ result[1] = Ok(None)

Batches == Op("batch_get") \/ Op("batch_put") \/ Op("batch_delete")
AllCarried == Flatten([i \in DOMAIN sent |-> Carried(sent[i])])
Count(seq, x) == Cardinality({i \in DOMAIN seq : seq[i] = x})
KeysOf(w) == {Carried(w)[i][1] : i \in DOMAIN Carried(w)}

\* C18: when a BatchGet, BatchPut or BatchDelete succeeds, its wire requests
\* together carry exactly the input: every key (every pair, value intact) as
\* often as the input names it, none dropped, none added, and no key is carried
\* by two different wire requests.
C18_GroupsPartitionInput ==
    Batches /\ Done /\ result[1].ok =>
        /\ \A x \in Range(BatchItems) \cup Range(AllCarried) :
               Count(AllCarried, x) = Count(BatchItems, x)
        /\ \A i, j \in DOMAIN sent : i /= j => KeysOf(sent[i]) \cap KeysOf(sent[j]) = {}

C18_Witness ==
    /\ Op("batch_put") /\ Done /\ result[1].ok
    /\ Len(input[1].pairs) = 2
    /\ Len(sent) = 2
    /\ Len(sent[1].pairs) = 1 /\ Len(sent[2].pairs) = 1

\* C19: a batch operation that succeeds has issued exactly one wire dispatch
\* for each region its keys fall in, sent to that region and carrying exactly
\* the input's keys of that region; keys all in one region give one dispatch.
C19_OneDispatchPerRegion ==
    Batches /\ Done /\ result[1].ok =>
        /\ Len(sent) = Cardinality(Touched)
        /\ \A region \in Touched :
               \E i \in DOMAIN sent :
                   /\ sent[i].region = region.id
                   /\ Carried(sent[i]) = GroupOf(BatchItems, region)
        /\ \A i \in DOMAIN sent :
               \A k \in KeysOf(sent[i]) : RegionOf(splits, k).id = sent[i].region

C19_Witness ==
    /\ Op("batch_get") /\ Done /\ result[1].ok
    /\ splits = {}
    /\ input[1].keys = <<1, 0>>
    /\ Len(sent) = 1 /\ sent[1].keys = <<1, 0>>

\* C20: when the dispatch for one region group fails, the other region groups
\* of the operation are dispatched all the same.
C20_SiblingsStillDispatched ==
    Batches /\ Done /\ "err" \in Range(replies) =>
        \A region \in Touched : \E i \in DOMAIN sent : sent[i].region = region.id

InFlight == state = "Initiated" /\ pc = "dispatch" /\ io = "pending"

\* C21: the fan-out is concurrent: the dispatches of an operation are issued
\* without waiting for earlier ones to complete, so while one dispatch is in
\* flight no element of the store stream is left waiting behind it.
C21_ConcurrentFanOut == InFlight => StreamEnded(stream)

\* C22: no retry, and a node handle is used once: no two wire requests of an
\* operation go to the same region, every dispatch follows a lookup of its own,
\* and a failed dispatch is the operation's last: nothing is looked up or sent
\* after it, the engine only consumes the error and finishes.
C22_NoRetry ==
    /\ \A i, j \in DOMAIN sent : i /= j => sent[i].region /= sent[j].region
    /\ Len(sent) <= lookups
    /\ Len(replies) <= Len(sent) /\ Len(sent) <= Len(replies) + 1
    /\ \A i \in DOMAIN replies :
           replies[i] = "err" =>
               /\ i = Len(sent)
               /\ state = "Initiated" =>
                      \/ pc = "dispatch" /\ io = "err"
                      \/ Done /\ result[1] = Err(Error("Dispatch"))

C22_Witness ==
    /\ Op("batch_delete") /\ Done
    /\ Cardinality(Touched) = 2
    /\ Len(sent) = 1 /\ replies = <<"err">>
    /\ lookups = 2

\* C23: the lifecycle is one-directional and single-shot: however often the
\* request is polled, it goes from Uninitiated to Initiated once and never
\* back, and execute runs exactly once, at that step; the result is the one
\* reduce of what that one execution's stream yielded.
C23_SingleShot ==
    /\ [][state = "Initiated" => state' \in {"Initiated", "Dropped"}]_vars
    /\ [][executes' /= executes =>
              /\ state = "Uninitiated" /\ state' = "Initiated"
              /\ executes = 0 /\ executes' = 1]_vars
    /\ [][state = "Uninitiated" /\ state' = "Initiated" =>
              executes' = 1 /\ payload' = None]_vars
    /\ [][state = "Initiated" /\ state' = "Initiated" => self' = self]_vars
    /\ [](state = "Initiated" => executes = 1)
    /\ [](Done /\ self /= None => result[1] = reduce(self[1].kind, parts))

C23_Witness ==
    /\ Op("batch_get") /\ state = "Initiated" /\ Done
    /\ executes = 1
    /\ lookups = 4 /\ Len(sent) = 2

Ranged == Op("scan") \/ Op("delete_range")
Asked == into_keys(input[1].range).val
AskedEnd == IF Asked[2] = None THEN KeyEnd ELSE Asked[2][1]
Intersecting == {RegionOf(splits, k) : k \in {x \in Keys : InKeyRange(x, Asked)}}
Larger(a, b) == IF a < b THEN b ELSE a
Smaller(a, b) == IF a < b THEN a ELSE b

\* C24: a Scan or DeleteRange that succeeds has issued one dispatch for each
\* region its range intersects, and each wire request carries as (start, end)
\* the intersection of the caller's range with that region's range.
C24_RangeIntersection ==
    Ranged /\ Done /\ result[1].ok =>
        /\ Len(sent) = Cardinality(Intersecting)
        /\ \A region \in Intersecting :
               \E i \in DOMAIN sent :
                   /\ sent[i].region = region.id
                   /\ sent[i].start_key = Larger(Asked[1], region.start)
                   /\ sent[i].end_key = Smaller(AskedEnd, region.end)

Resolved == IF Op("batch_get") THEN Cardinality(Touched) ELSE Cardinality(Intersecting)
Mapped(i) == map_result(self[1].kind, node_serve(db, sent[i]).resp)

\* C25: the result of a BatchGet or Scan is Ready only once the reduce has
\* consumed the whole stream or met an error; a successful result is the
\* concatenation of the mapped responses of all N region dispatches, N being
\* the number of regions resolved, each dispatched, answered and included once.
C25_ReadyAfterAll ==
    (Op("batch_get") \/ Op("scan")) /\ Done /\ self /= None =>
        /\ StreamEnded(stream) \/ Errors(parts) /= {}
        /\ result[1].ok =>
               /\ StreamEnded(stream)
               /\ Len(parts) = Resolved
               /\ Len(sent) = Resolved
               /\ replies = [i \in 1 .. Resolved |-> "ok"]
               /\ \A i, j \in DOMAIN sent : i /= j => sent[i].region /= sent[j].region
               /\ result[1].val = Flatten([i \in 1 .. Resolved |-> Mapped(i)])

C25_Witness ==
    /\ Op("scan") /\ Done /\ result[1].ok
    /\ Resolved = 2
    /\ Len(result[1].val) = 2
    /\ Mapped(1) /= << >> /\ Mapped(2) /= << >>

SingleKey == Op("get") \/ Op("put") \/ Op("delete")

\* C26: a Get, Put or Delete that passed validation performs exactly one
\* topology lookup, which yields exactly one stream element, issues at most one
\* wire dispatch, and its result is the outcome of that element: the mapped
\* response of the one dispatch, or the resolution error (nothing dispatched),
\* or the dispatch error.
C26_SingleKey ==
    SingleKey /\ state = "Initiated" /\ self /= None =>
        /\ lookups = 1
        /\ Len(sent) <= 1 /\ Len(parts) <= 1
        /\ Done =>
               /\ Len(parts) = 1
               /\ result[1] = parts[1]
               /\ \/ /\ result[1] = Ok(map_result(self[1].kind, resp))
                     /\ Len(sent) = 1 /\ replies = <<"ok">>
                     /\ sent[1].key = input[1].key
                     /\ sent[1].region = RegionOf(splits, input[1].key).id
                  \/ result[1] = Err(Error("Resolution")) /\ sent = << >>
                  \/ result[1] = Err(Error("Dispatch")) /\ Len(sent) = 1 /\ replies = <<"err">>

C26_Witness ==
    /\ Op("delete") /\ Done
    /\ splits /= {}
    /\ lookups = 1 /\ Len(sent) = 1
    /\ result[1] = Err(Error("Dispatch"))

\* C27: the take-first reduce of Get, Put, Delete and DeleteRange never sees
\* an empty stream: whatever the input and the topology, a request that passed
\* validation gets at least one element, so its result is never the panic of
\* expect("no results should be impossible").
C27_TakeFirstNeverEmpty ==
    /\ Done => result[1] /= Panic
    /\ Done /\ self /= None /\ TakesFirst(self[1].kind) =>
           Len(parts) = 1 /\ lookups = 1

C27_Witness ==
    /\ Op("delete_range") /\ Done /\ result[1].ok
    /\ splits /= {}
    /\ self[1].range = <<MaxKey, None>>
    /\ Len(parts) = 1

Unresolved(i) == ~parts[i].ok /\ parts[i].err.kind = "Resolution"

\* C28: a resolution error aborts its branch without a dispatch: when a key
\* lookup, a grouping or a region-id lookup fails, no wire request is built or
\* sent for that element, and the error reaches the reduce as the outcome of
\* that element, after the outcomes of the elements dispatched before it.
C28_ResolutionErrorNoDispatch ==
    /\ state = "Initiated" /\ io = "err" /\ pc \in {"group", "store"} =>
           Len(sent) = Len(parts) /\ Len(replies) = Len(parts)
    /\ \A i \in DOMAIN parts :
           Unresolved(i) =>
               /\ i = Len(parts)
               /\ Len(sent) = i - 1 /\ Len(replies) = i - 1
               /\ \A j \in 1 .. i - 1 : parts[j].ok /\ replies[j] = "ok"
               /\ Done /\ result[1] = Err(Error("Resolution"))

C28_Witness ==
    /\ Op("batch_put") /\ Done
    /\ Len(parts) = 2 /\ Unresolved(2)
    /\ Len(sent) = 1
    /\ lookups = 3

WriteBatch == Op("batch_put") \/ Op("batch_delete")
RegionById(id) == CHOOSE region \in {RegionOf(splits, k) : k \in Keys} : region.id = id
Applied(w) ==
    IF w.rpc = "raw_batch_put"
    THEN \A j \in DOMAIN w.pairs : Stored1(w.pairs[j][1]) = Some(LastValue(w.pairs, w.pairs[j][1]))
    ELSE \A j \in DOMAIN w.keys : Stored1(w.keys[j]) = None

\* C29: no compensation: when a BatchPut or BatchDelete fails because the
\* dispatch of one region group failed, the caller gets that one failure, the
\* only wire requests sent are the writes of the groups themselves (no rollback
\* or compensating request), and the writes of the groups that had succeeded
\* stay applied in the store.
C29_NoCompensation ==
    WriteBatch /\ Done /\ "err" \in Range(replies) =>
        /\ result[1] = Err(Error("Dispatch"))
        /\ \A i \in DOMAIN sent :
               /\ sent[i].rpc = (IF Op("batch_put") THEN "raw_batch_put" ELSE "raw_batch_delete")
               /\ Carried(sent[i]) = GroupOf(BatchItems, RegionById(sent[i].region))
        /\ \A i \in DOMAIN replies : replies[i] = "ok" => Applied(sent[i])

C29_Witness ==
    /\ Op("batch_put") /\ Done
    /\ replies = <<"ok", "err">>
    /\ sent[1].pairs = <<(<<0, "v2">>)>>
    /\ db[DefaultCf][0] = Some("v2") /\ self[1].cf = None
    /\ result[1] = Err(Error("Dispatch"))

Unchanged(k) == \A c \in AllCfs : c /= CfOf(self[1].cf) => db[c][k] = Stored1(k)

\* C31: a DeleteRange never deletes a key outside the caller's range: every
\* wire delete-range request covers keys of the requested range only, and the
\* keys outside the range are left as they were.
C31_DeleteRangeInsideOnly ==
    Op("delete_range") /\ self /= None =>
        /\ \A i \in DOMAIN sent : \A k \in WireKeys(sent[i]) : InKeyRange(k, Asked)
        /\ \A k \in Keys : ~InKeyRange(k, Asked) => Unchanged(k)

\* C32: the limit of a Scan is a limit per region: every raw_scan sent carries
\* the caller's limit unchanged, each region answers with at most that many
\* pairs, and the result is all of them appended, nothing cut off; a Scan over
\* R regions returns up to R times the limit.
C32_LimitPerRegion ==
    Op("scan") /\ self /= None =>
        /\ \A i \in DOMAIN sent : sent[i].limit = input[1].limit
        /\ \A i \in DOMAIN parts : parts[i].ok => Len(parts[i].val) <= input[1].limit
        /\ Done /\ result[1].ok =>
               /\ result[1].val = Flatten(Vals(parts))
               /\ Len(result[1].val) <= Len(sent) * input[1].limit

C32_Witness ==
    /\ Op("scan") /\ Done /\ result[1].ok
    /\ Len(sent) = 2
    /\ Len(result[1].val) > input[1].limit

Resolving == Running /\ pc \in {"group", "store"}

\* C33: the dispatches of one operation are serialised in resolve order: at
\* most one wire request is unanswered at any time, the next element is
\* resolved only when every request sent so far has been answered, and a
\* request is sent only when the results of all earlier elements are in.
C33_Serialised ==
    /\ Len(sent) <= Len(replies) + 1
    /\ Resolving => Len(replies) = Len(sent) /\ Len(parts) = Len(sent)
    /\ InFlight => Len(replies) = Len(sent) - 1 /\ Len(parts) = Len(sent) - 1
    /\ Running => \A i \in DOMAIN parts : parts[i].ok /\ replies[i] = "ok"

C33_Witness ==
    /\ Op("scan") /\ InFlight
    /\ Len(sent) = 2 /\ replies = <<"ok">>
    /\ Len(parts) = 1

ShortCircuits == Op("batch_get") \/ Op("batch_put") \/ Op("batch_delete") \/ Op("scan")

\* C34: the batch and concatenating operations stop at the first error: when an
\* error element reaches the reduce of BatchGet, BatchPut, BatchDelete or Scan
\* the operation is complete with that error, the error is the last element
\* the stream yielded, and what is left of the stream is never resolved or
\* dispatched: no lookup and no wire request beyond those of the elements
\* yielded.
C34_ShortCircuit ==
    ShortCircuits /\ state = "Initiated" /\ Errors(parts) /= {} =>
        /\ Done /\ result[1] = Err(parts[Len(parts)].err)
        /\ \A i \in DOMAIN parts : ~parts[i].ok => i = Len(parts)
        /\ Len(sent) <= Len(parts) /\ Len(replies) = Len(sent)
        /\ lookups <= (IF Op("scan") THEN 1 ELSE 2) * Len(parts)

C34_Witness ==
    /\ Op("batch_put") /\ Done /\ ~result[1].ok
    /\ Len(parts) = 1 /\ ~StreamEnded(stream)
    /\ Len(sent) = 1 /\ replies = <<"err">>

\* C35: a BatchScan never looks up the topology and never sends a wire request,
\* whatever its input: once polled it has failed, with the limit-exceeded, the
\* invalid-key-range or the not-implemented error, and no node was contacted.
C35_BatchScanContactsNoNode ==
    Op("batch_scan") =>
        /\ Untouched /\ replies = << >>
        /\ state = "Initiated" => Done /\ ~result[1].ok /\ io = "idle"

C35_Witness ==
    /\ Op("batch_scan") /\ input[1].ranges /= << >> /\ AllValid(input[1].ranges)
    /\ input[1].limit <= MAX_RAW_KV_SCAN_LIMIT
    /\ self /= None /\ self[1].kind = "RawBatchScan"
    /\ Done /\ Untouched

OverLimit == input[1].limit > MAX_RAW_KV_SCAN_LIMIT
SomeInvalid == \E i \in DOMAIN input[1].ranges : InvalidRange(input[1].ranges[i])

C37_GetNeverEmptyValue ==
    Op("get") /\ Done =>
        \/ ~result[1].ok
        \/ result[1].val = None
        \/ \E v \in Values \ {""} : result[1].val = Some(v)

C37_Witness ==
    /\ Op("get") /\ Done /\ result[1].ok
    /\ replies = <<"ok">> /\ resp.value = ""
    /\ Stored1(input[1].key) = Some("")
    /\ result[1].val = None

EmptyBatch ==
    /\ Op("batch_get") \/ Op("batch_put") \/ Op("batch_delete")
    /\ BatchItems = << >>

\* C38: the empty batch: a BatchGet over no keys sends nothing and succeeds
\* with the empty list, and a BatchPut or BatchDelete over no items sends
\* nothing and succeeds.
C38_EmptyBatch ==
    EmptyBatch /\ state = "Initiated" =>
        /\ Done /\ sent = << >> /\ parts = << >>
        /\ Op("batch_get") => result[1] = Ok(<< >>)
        /\ ~Op("batch_get") => result[1] = Ok(Unit)

C38_Witness ==
    /\ Op("batch_put") /\ input[1].pairs = << >>
    /\ state = "Initiated" /\ executes = 1
    /\ result = Some(Ok(Unit)) /\ sent = << >>

\* C39: the assertions inside RequestState hold in every reachable state,
\* whatever the order of cf, key_only and poll calls: a request in the
\* Uninitiated state holds its payload (the unwrap of assure_initialized finds
\* Some), and once assure_initialized has run the state is Initiated, the
\* payload is gone and the future exists (assert_init_pin_mut finds Initiated).
C39_RequestStateAssertions ==
    /\ state = "Uninitiated" =>
           /\ payload /= None
           /\ executes = 0
    /\ executes > 0 => state \in {"Initiated", "Dropped"}
    /\ state = "Initiated" =>
           /\ payload = None
           /\ pc /= "idle"
           /\ self /= None \/ (Done /\ ~result[1].ok)

C39_Witness ==
    /\ Op("batch_scan") /\ state = "Initiated"
    /\ executes = 1 /\ payload = None
    /\ self /= None /\ self[1].cf /= None /\ self[1].key_only

=============================================================================
